---------------------------- MODULE Spec2Model ----------------------------
(***************************************************************************)
(* A model of the assignment solver: the CSV reader that builds a Network  *)
(* (src/src/io/csv/mod.rs), the Network itself with its nodes and arcs     *)
(* (src/src/network/mod.rs, node.rs, arc.rs) and the two-phase minimum     *)
(* cost augmentation of Network::find_min_cost_max_flow; and the GUI that  *)
(* spawns the solver threads (src/src/ui/solver_gui.rs, solver.rs, mod.rs).*)
(*                                                                         *)
(* Node ids and arc ids are the 0-based indices of the source; the vectors *)
(* are sequences, so node id n is nodes[n + 1] and arc id a is arcs[a + 1].*)
(* Costs (f32 in the source) are small integers, on which f32 arithmetic   *)
(* is exact.  An Option is a sequence: <<>> is None and <<x>> is Some(x);  *)
(* a distance of f32::INFINITY is <<>> as well.                            *)
(***************************************************************************)
EXTENDS Integers, Sequences, FiniteSets

\* Bounds of the model: the input files that are explored.
MaxTasks == 2
MaxWorkers == 2
MaxCap == 2
\* find_min_cost_max_flow is called at most this many times on one Network.
MaxCalls == 2

\* The GUI spawns at most this many solver threads.
MaxThreads == 2
\* The file names the file dialogs can return.
MaxFiles == 2

\* An affinity list handed to add_worker directly has at most this many entries.
MaxEntries == 2

\* The affinity values a worker's cell may hold.
Affinities == {-1, 1, 2}

VARIABLES
    network,             \* the Network struct: nodes, arcs, counters, phase flag
    tasks,               \* CsvReader.tasks: the task ids, in column order
    workers,             \* the worker ids add_worker returned, in row order
    task_decl,           \* the <<min, max>> each task was declared with
    worker_decl,         \* the affinity list each worker was declared with
    pc,                  \* where the run of Solver::assign_workers stands
    result,              \* the Err message / Ok of the operation that returned
    current_flow,        \* find_min_cost_max_flow's local counter
    path,                \* the path the current iteration pushes flow down
    step,                \* the index of the next node pair of path
    cloned_connections,  \* what is left of reset_arcs_for_second_phase's loop
    pre,                 \* the Network as it was when the operation was called
    calls,               \* how many times find_min_cost_max_flow was called
    reset_calls,         \* current_flow at each call of reset_arcs_for_second_phase
                         \* that the running find_min_cost_max_flow has made
    baseline,            \* the outcome of the solve of an earlier build of the
                         \* same declarations, if there was one
    assigned_at_search,  \* the number of workers each task had, by column, when
                         \* the last shortest-path search was made
    gui                  \* SolverGui, the shared CurrentStatus and the solver
                         \* threads the GUI has spawned

vars == <<network, tasks, workers, task_decl, worker_decl, pc, result,
          current_flow, path, step, cloned_connections, pre, calls, reset_calls,
          baseline, assigned_at_search, gui>>

None == <<>>
Some(x) == <<x>>

SOURCE == 0
SINK == 1

---------------------------------------------------------------------------
(* Arc: src/src/network/arc.rs.  Network calls push_flow with the phase    *)
(* flag alone and update_for_second_phase with no argument (mod.rs lines   *)
(* 251 and 290) and moves the arc id between the connection lists itself,  *)
(* so the operations are the ones of arc.rs less the edits of the node     *)
(* vector that arc.rs makes through its nodes argument.                    *)

ArcNew(start_node_id, end_node_id, cost, min_flow, max_flow) ==
    [start_node |-> start_node_id, end_node |-> end_node_id, cost |-> cost,
     min_flow |-> min_flow, max_flow |-> max_flow, current_flow |-> 0]

\* A variant of invert that flips the arc and leaves its cost as it was.
invert_keeps_cost(arc) ==
    [arc EXCEPT !.current_flow = 0,
                !.start_node = arc.end_node,
                !.end_node = arc.start_node]

\* A variant of invert that negates the cost and resets the flow, and leaves
\* the endpoints as they were.
invert_keeps_endpoints(arc) ==
    [arc EXCEPT !.cost = -arc.cost, !.current_flow = 0]

invert(arc) ==
    [arc EXCEPT !.cost = -arc.cost,
                !.current_flow = 0,
                !.start_node = arc.end_node,
                !.end_node = arc.start_node]

\* A variant of push_flow that takes max_flow for its threshold in both phases.
push_flow_to_max(arc, flag) ==
    LET pushed == [arc EXCEPT !.current_flow = arc.current_flow + 1]
    IN  IF pushed.current_flow = pushed.max_flow
        THEN [arc |-> invert(pushed), inverted |-> TRUE]
        ELSE [arc |-> pushed, inverted |-> FALSE]

\* A variant of push_flow that reads the phase flag the wrong way round.
push_flow_flag_negated(arc, flag) ==
    LET pushed == [arc EXCEPT !.current_flow = arc.current_flow + 1]
    IN  IF ~flag
        THEN IF pushed.current_flow = pushed.max_flow
             THEN [arc |-> invert(pushed), inverted |-> TRUE]
             ELSE [arc |-> pushed, inverted |-> FALSE]
        ELSE IF pushed.current_flow = pushed.min_flow
             THEN [arc |-> invert(pushed), inverted |-> TRUE]
             ELSE [arc |-> pushed, inverted |-> FALSE]

\* A variant of push_flow that inverts the arc at or past the threshold.
push_flow_at_or_past_threshold(arc, flag) ==
    LET pushed == [arc EXCEPT !.current_flow = arc.current_flow + 1]
    IN  IF flag
        THEN IF pushed.current_flow >= pushed.max_flow
             THEN [arc |-> invert(pushed), inverted |-> TRUE]
             ELSE [arc |-> pushed, inverted |-> FALSE]
        ELSE IF pushed.current_flow >= pushed.min_flow
             THEN [arc |-> invert(pushed), inverted |-> TRUE]
             ELSE [arc |-> pushed, inverted |-> FALSE]

\* push_flow returns the arc as it is left and whether it was inverted.
push_flow(arc, flag) ==
    LET pushed == [arc EXCEPT !.current_flow = arc.current_flow + 1]
    IN  IF flag
        THEN IF pushed.current_flow = pushed.max_flow
             THEN [arc |-> invert(pushed), inverted |-> TRUE]
             ELSE [arc |-> pushed, inverted |-> FALSE]
        ELSE IF pushed.current_flow = pushed.min_flow
             THEN [arc |-> invert(pushed), inverted |-> TRUE]
             ELSE [arc |-> pushed, inverted |-> FALSE]

\* A variant of update_for_second_phase that inverts an arc at capacity too.
update_for_second_phase_unguarded(arc) ==
    [arc |-> [invert(arc) EXCEPT !.current_flow = arc.min_flow], inverted |-> TRUE]

\* A variant of update_for_second_phase that leaves the flow of the inverted
\* arc at the 0 that invert set.
update_for_second_phase_flow_zero(arc) ==
    IF arc.min_flow = arc.max_flow
    THEN [arc |-> arc, inverted |-> FALSE]
    ELSE [arc |-> invert(arc), inverted |-> TRUE]

update_for_second_phase(arc) ==
    IF arc.min_flow = arc.max_flow
    THEN [arc |-> arc, inverted |-> FALSE]
    ELSE [arc |-> [invert(arc) EXCEPT !.current_flow = arc.min_flow],
          inverted |-> TRUE]

---------------------------------------------------------------------------
(* Node: src/src/network/node.rs.  A node is its connected_arcs vector.    *)

contains(connected_arcs, arc_id) ==
    \E i \in 1..Len(connected_arcs) : connected_arcs[i] = arc_id

add_connection(connected_arcs, arc_id) ==
    IF contains(connected_arcs, arc_id)
    THEN connected_arcs
    ELSE Append(connected_arcs, arc_id)

\* A variant of remove_connection that drops the last connection, whichever
\* arc it is.
remove_connection_pops_last(connected_arcs, arc_id) ==
    SubSeq(connected_arcs, 1, Len(connected_arcs) - 1)

\* Vec::swap_remove: the last element takes the place of the removed one.
\* The caller checks contains() first: the source panics otherwise.
remove_connection(connected_arcs, arc_id) ==
    LET idx == CHOOSE i \in 1..Len(connected_arcs) :
                   /\ connected_arcs[i] = arc_id
                   /\ \A j \in 1..(i - 1) : connected_arcs[j] # arc_id
        last == Len(connected_arcs)
    IN  SubSeq([connected_arcs EXCEPT ![idx] = connected_arcs[last]], 1, last - 1)

---------------------------------------------------------------------------
(* Network: src/src/network/mod.rs                                         *)

NetworkNew ==
    [min_flow_satisfied |-> FALSE, min_flow_amount |-> 0, max_flow_amount |-> 0,
     num_tasks |-> 0, nodes |-> <<<<>>, <<>>>>, arcs |-> <<>>]

add_node(net) == [net EXCEPT !.nodes = Append(net.nodes, <<>>)]

add_arc(net, start_node_id, end_node_id, cost, min_flow, max_flow) ==
    [net EXCEPT
        !.nodes[start_node_id + 1] = add_connection(@, Len(net.arcs)),
        !.arcs = Append(net.arcs,
                        ArcNew(start_node_id, end_node_id, cost, min_flow, max_flow))]

\* A variant of add_task that takes the place of the task among the tasks for
\* its node id, as if no worker was ever added before a task.
add_task_id_from_num_tasks(net, min_workers, max_workers) ==
    LET task_id == net.num_tasks + 2
        counted == [add_node(net) EXCEPT
                       !.min_flow_amount = net.min_flow_amount + min_workers,
                       !.max_flow_amount = net.max_flow_amount + max_workers,
                       !.num_tasks = net.num_tasks + 1]
    IN  IF min_workers > 0
        THEN add_arc(counted, task_id, SINK, 0, min_workers, max_workers)
        ELSE add_arc(counted, SINK, task_id, 0, min_workers, max_workers)

add_task(net, min_workers, max_workers) ==
    LET task_id == Len(net.nodes)
        counted == [add_node(net) EXCEPT
                       !.min_flow_amount = net.min_flow_amount + min_workers,
                       !.max_flow_amount = net.max_flow_amount + max_workers,
                       !.num_tasks = net.num_tasks + 1]
    IN  IF min_workers > 0
        THEN add_arc(counted, task_id, SINK, 0, min_workers, max_workers)
        ELSE add_arc(counted, SINK, task_id, 0, min_workers, max_workers)

RECURSIVE add_affinity_arcs(_, _, _, _)
add_affinity_arcs(net, worker_id, task_affinity, i) ==
    IF i > Len(task_affinity)
    THEN net
    ELSE add_affinity_arcs(
             add_arc(net, worker_id, task_affinity[i][1], task_affinity[i][2], 1, 1),
             worker_id, task_affinity, i + 1)

\* A variant of add_worker that stores the negated affinity as the arc's cost.
add_worker_negated_costs(net, task_affinity) ==
    LET worker_id == Len(net.nodes)
    IN  add_affinity_arcs(add_arc(add_node(net), SOURCE, worker_id, 0, 1, 1),
                          worker_id,
                          [i \in 1..Len(task_affinity) |->
                              <<task_affinity[i][1], -task_affinity[i][2]>>],
                          1)

\* A variant of add_worker whose arc from the source has no minimum flow.
add_worker_source_arc_no_min(net, task_affinity) ==
    LET worker_id == Len(net.nodes)
    IN  add_affinity_arcs(add_arc(add_node(net), SOURCE, worker_id, 0, 0, 1),
                          worker_id, task_affinity, 1)

add_worker(net, task_affinity) ==
    LET worker_id == Len(net.nodes)
    IN  add_affinity_arcs(add_arc(add_node(net), SOURCE, worker_id, 0, 1, 1),
                          worker_id, task_affinity, 1)

\* A variant of find_connecting_arc_id that returns the start node's first
\* connection without a look at where it ends.
find_connecting_arc_id_first(net, start_node_id, end_node_id) ==
    LET conns == net.nodes[start_node_id + 1]
    IN  IF conns = <<>> THEN None ELSE Some(conns[1])

find_connecting_arc_id(net, start_node_id, end_node_id) ==
    LET conns == net.nodes[start_node_id + 1]
        hits == {i \in 1..Len(conns) : net.arcs[conns[i] + 1].end_node = end_node_id}
    IN  IF hits = {}
        THEN None
        ELSE Some(conns[CHOOSE i \in hits : \A j \in hits : i <= j])

---------------------------------------------------------------------------
(* Network::find_shortest_path: the Bellman-Ford adaptation.  The search   *)
(* state is [distances, predecessors, nodes_updated].                      *)

\* A variant of relax that puts the sink on the worklist like any other node.
relax_pushes_sink(net, search, node_id, arc_id) ==
    LET connected_arc == net.arcs[arc_id + 1]
        connected_node_id == connected_arc.end_node
        cur_dist == search.distances[connected_node_id + 1]
        dist_to_here == search.distances[node_id + 1]
        dist_from_here == connected_arc.cost
    IN  IF /\ dist_to_here # None
           /\ \/ cur_dist = None
              \/ dist_to_here[1] + dist_from_here < cur_dist[1]
        THEN [distances |->
                  [search.distances EXCEPT ![connected_node_id + 1] =
                       Some(dist_to_here[1] + dist_from_here)],
              predecessors |->
                  [search.predecessors EXCEPT ![connected_node_id + 1] = Some(node_id)],
              nodes_updated |-> Append(search.nodes_updated, connected_node_id)]
        ELSE search

\* A variant of relax that also takes a distance equal to the one it has.
relax_on_ties(net, search, node_id, arc_id) ==
    LET connected_arc == net.arcs[arc_id + 1]
        connected_node_id == connected_arc.end_node
        cur_dist == search.distances[connected_node_id + 1]
        dist_to_here == search.distances[node_id + 1]
        dist_from_here == connected_arc.cost
    IN  IF /\ dist_to_here # None
           /\ \/ cur_dist = None
              \/ dist_to_here[1] + dist_from_here <= cur_dist[1]
        THEN [distances |->
                  [search.distances EXCEPT ![connected_node_id + 1] =
                       Some(dist_to_here[1] + dist_from_here)],
              predecessors |->
                  [search.predecessors EXCEPT ![connected_node_id + 1] = Some(node_id)],
              nodes_updated |->
                  IF connected_node_id # SINK
                  THEN Append(search.nodes_updated, connected_node_id)
                  ELSE search.nodes_updated]
        ELSE search

\* A variant of relax that takes the first distance found for a node and
\* never a shorter one found later.
relax_unreached_only(net, search, node_id, arc_id) ==
    LET connected_arc == net.arcs[arc_id + 1]
        connected_node_id == connected_arc.end_node
        cur_dist == search.distances[connected_node_id + 1]
        dist_to_here == search.distances[node_id + 1]
        dist_from_here == connected_arc.cost
    IN  IF dist_to_here # None /\ cur_dist = None
        THEN [distances |->
                  [search.distances EXCEPT ![connected_node_id + 1] =
                       Some(dist_to_here[1] + dist_from_here)],
              predecessors |->
                  [search.predecessors EXCEPT ![connected_node_id + 1] = Some(node_id)],
              nodes_updated |->
                  IF connected_node_id # SINK
                  THEN Append(search.nodes_updated, connected_node_id)
                  ELSE search.nodes_updated]
        ELSE search

\* One relaxation: the body of the inner loop, for arc_id out of node_id.
relax(net, search, node_id, arc_id) ==
    LET connected_arc == net.arcs[arc_id + 1]
        connected_node_id == connected_arc.end_node
        cur_dist == search.distances[connected_node_id + 1]
        dist_to_here == search.distances[node_id + 1]
        dist_from_here == connected_arc.cost
    IN  IF /\ dist_to_here # None
           /\ \/ cur_dist = None
              \/ dist_to_here[1] + dist_from_here < cur_dist[1]
        THEN [distances |->
                  [search.distances EXCEPT ![connected_node_id + 1] =
                       Some(dist_to_here[1] + dist_from_here)],
              predecessors |->
                  [search.predecessors EXCEPT ![connected_node_id + 1] = Some(node_id)],
              nodes_updated |->
                  IF connected_node_id # SINK
                  THEN Append(search.nodes_updated, connected_node_id)
                  ELSE search.nodes_updated]
        ELSE search

\* for connected_arc_id in node.get_connections().iter()
RECURSIVE search_from_node(_, _, _, _)
search_from_node(net, search, node_id, i) ==
    IF i > Len(net.nodes[node_id + 1])
    THEN search
    ELSE search_from_node(net, relax(net, search, node_id, net.nodes[node_id + 1][i]),
                          node_id, i + 1)

\* for node_id in &nodes_to_search_from
RECURSIVE search_from_nodes(_, _, _, _)
search_from_nodes(net, search, nodes_to_search_from, k) ==
    IF k > Len(nodes_to_search_from)
    THEN search
    ELSE search_from_nodes(net,
                           search_from_node(net, search, nodes_to_search_from[k], 1),
                           nodes_to_search_from, k + 1)

\* nodes_updated.sort(); nodes_updated.dedup()
RECURSIVE sorted_seq(_)
sorted_seq(ids) ==
    IF ids = {}
    THEN <<>>
    ELSE LET least == CHOOSE x \in ids : \A y \in ids : x <= y
         IN  <<least>> \o sorted_seq(ids \ {least})

sort_dedup(nodes_updated) ==
    sorted_seq({nodes_updated[i] : i \in 1..Len(nodes_updated)})

\* while nodes_updated.len() > 0 && num_iterations < num_nodes
RECURSIVE search_rounds(_, _, _)
search_rounds(net, search, num_iterations) ==
    IF Len(search.nodes_updated) > 0 /\ num_iterations < Len(net.nodes)
    THEN LET searched == search_from_nodes(net,
                             [search EXCEPT !.nodes_updated = <<>>],
                             search.nodes_updated, 1)
         IN  search_rounds(net,
                 [searched EXCEPT !.nodes_updated = sort_dedup(searched.nodes_updated)],
                 num_iterations + 1)
    ELSE [search |-> search, num_iterations |-> num_iterations]

\* while let Some(node_id) = predecessors[*path.last().unwrap()]: the path is
\* built backwards.  A chain of predecessors that closes on itself never ends
\* in the source; fuel stops the walk after more steps than there are nodes.
RECURSIVE walk_back(_, _, _)
walk_back(predecessors, backwards, fuel) ==
    LET pred == predecessors[backwards[Len(backwards)] + 1]
    IN  IF pred = None \/ fuel = 0
        THEN backwards
        ELSE walk_back(predecessors, Append(backwards, pred[1]), fuel - 1)

reverse(s) == [i \in 1..Len(s) |-> s[Len(s) + 1 - i]]

\* The outcome is a path (Ok), the FeasibilityError, or one of the panics.
find_shortest_path(net) ==
    LET num_nodes == Len(net.nodes)
        start == [distances |-> [i \in 1..num_nodes |-> IF i = SOURCE + 1 THEN Some(0) ELSE None],
                  predecessors |-> [i \in 1..num_nodes |-> None],
                  nodes_updated |-> <<SOURCE>>]
        done == search_rounds(net, start, 0)
        backwards == walk_back(done.search.predecessors, <<SINK>>, num_nodes + 1)
    IN  IF done.num_iterations >= num_nodes
        THEN [kind |-> "panic", message |-> "Negative cycle detected", path |-> <<>>]
        ELSE IF done.search.predecessors[SINK + 1] = None
        THEN [kind |-> "err", message |-> "Unable to assign all workers!", path |-> <<>>]
        ELSE IF backwards[Len(backwards)] # SOURCE
        THEN [kind |-> "panic", message |-> "Path does not start at source!", path |-> <<>>]
        ELSE [kind |-> "ok", message |-> "", path |-> reverse(backwards)]

\* Network::get_cost_of_arcs_from_nodes
RECURSIVE sum_costs(_, _, _)
sum_costs(net, connected_arcs, i) ==
    IF i > Len(connected_arcs)
    THEN 0
    ELSE net.arcs[connected_arcs[i] + 1].cost + sum_costs(net, connected_arcs, i + 1)

RECURSIVE get_cost_of_arcs_from_nodes(_, _)
get_cost_of_arcs_from_nodes(net, node_ids) ==
    IF node_ids = <<>>
    THEN 0
    ELSE sum_costs(net, net.nodes[Head(node_ids) + 1], 1)
         + get_cost_of_arcs_from_nodes(net, Tail(node_ids))

---------------------------------------------------------------------------
(* CsvReader: src/src/io/csv/mod.rs.  A task row is the <<minimum, maximum>>*)
(* of one column; a worker row is a sequence of cells, <<>> a blank cell   *)
(* and <<a>> the affinity a.                                               *)

TaskRows ==
    UNION {[1..n -> (0..MaxCap) \X (0..MaxCap)] : n \in 0..MaxTasks}

Cells == {None} \cup {Some(a) : a \in Affinities}

WorkerRows(num_columns) ==
    UNION {[1..n -> Cells] : n \in 0..num_columns}

\* A variant of process_tasks that adds every column's task as it is declared.
RECURSIVE process_tasks_unchecked(_, _, _)
process_tasks_unchecked(read, rows, i) ==
    IF i > Len(rows)
    THEN read
    ELSE process_tasks_unchecked(
             [net |-> add_task(read.net, rows[i][1], rows[i][2]),
              tasks |-> Append(read.tasks, Len(read.net.nodes)),
              decl |-> Append(read.decl, <<rows[i][1], rows[i][2]>>),
              err |-> None],
             rows, i + 1)

\* process_tasks: the loop over the columns, left at the first invalid one.
RECURSIVE process_tasks(_, _, _)
process_tasks(read, rows, i) ==
    IF i > Len(rows)
    THEN read
    ELSE LET lower == rows[i][1]
             upper == rows[i][2]
         IN  IF upper < lower
             THEN [read EXCEPT !.err = Some("Maximum cannot be less than minimum!")]
             ELSE process_tasks(
                      [net |-> add_task(read.net, lower, upper),
                       tasks |-> Append(read.tasks, Len(read.net.nodes)),
                       decl |-> Append(read.decl, <<lower, upper>>),
                       err |-> None],
                      rows, i + 1)

\* process_worker's loop over self.tasks: the affinities it collects, or the
\* error it returns before the network is touched.
RECURSIVE collect_affinities(_, _, _, _)
collect_affinities(task_ids, row, k, affinities) ==
    IF k > Len(task_ids)
    THEN [affinities |-> affinities, err |-> None]
    ELSE IF k > Len(row)
    THEN [affinities |-> affinities, err |-> Some("Too few task affinities for worker!")]
    ELSE collect_affinities(task_ids, row, k + 1,
             IF row[k] # None
             THEN Append(affinities, <<task_ids[k], row[k][1]>>)
             ELSE affinities)

---------------------------------------------------------------------------
(* Status and CurrentStatus (src/src/ui/mod.rs) and SolverGui              *)
(* (src/src/ui/solver_gui.rs).  InProgress carries the fraction complete   *)
(* as <<iterations done, number of workers>>.                              *)

NotStarted == <<"NotStarted">>
Success == <<"Success">>
Failure(msg) == <<"Failure", msg>>
InProgress(pct) == <<"InProgress", pct>>

\* SolverGui::new with a new CurrentStatus: no file picked, no thread yet.
\* frame is "not_started" while update is inside update_not_started;
\* screen is what the last frame drew; network_users[n] are the threads
\* that have used the Network that thread n's Solver::new created.
GuiNew ==
    [infile |-> None,
     outfile |-> None,
     cur_status |-> NotStarted,
     frame |-> "idle",
     screen |-> <<"none">>,
     threads |-> <<>>,
     network_users |-> <<>>]

---------------------------------------------------------------------------
(* The run of Solver::assign_workers (src/src/ui/solver.rs): read_file,    *)
(* then find_min_cost_max_flow, step by step.                              *)

Init ==
    /\ network = NetworkNew
    /\ tasks = <<>>
    /\ workers = <<>>
    /\ task_decl = <<>>
    /\ worker_decl = <<>>
    /\ pc = "tasks"
    /\ result = "none"
    /\ current_flow = 0
    /\ path = <<>>
    /\ step = 0
    /\ cloned_connections = <<>>
    /\ pre = NetworkNew
    /\ calls = 0
    /\ reset_calls = <<>>
    /\ baseline = None
    /\ assigned_at_search = <<>>
    /\ gui = GuiNew

solve_locals == <<current_flow, path, step, cloned_connections>>

ProcessTasks ==
    /\ pc = "tasks"
    /\ \E rows \in TaskRows :
           LET read == process_tasks([net |-> network, tasks |-> <<>>,
                                      decl |-> <<>>, err |-> None], rows, 1)
           IN  /\ network' = read.net
               /\ tasks' = read.tasks
               /\ task_decl' = read.decl
               /\ IF read.err # None
                  THEN pc' = "returned" /\ result' = read.err[1]
                  ELSE pc' = "workers" /\ result' = result
    /\ UNCHANGED <<workers, worker_decl, solve_locals, pre, calls, reset_calls, baseline, assigned_at_search>>
    /\ UNCHANGED gui

ProcessWorker ==
    /\ pc = "workers"
    /\ Len(workers) < MaxWorkers
    /\ \E row \in WorkerRows(Len(tasks)) :
           LET got == collect_affinities(tasks, row, 1, <<>>)
           IN  IF got.err # None
               THEN /\ pc' = "returned"
                    /\ result' = got.err[1]
                    /\ UNCHANGED <<network, workers, worker_decl>>
               ELSE /\ network' = add_worker(network, got.affinities)
                    /\ workers' = Append(workers, Len(network.nodes))
                    /\ worker_decl' = Append(worker_decl, got.affinities)
                    /\ UNCHANGED <<pc, result>>
    /\ UNCHANGED <<tasks, task_decl, solve_locals, pre, calls, reset_calls, baseline, assigned_at_search>>
    /\ UNCHANGED gui

\* reset_arcs_for_second_phase, entered: the sink's connections are cloned.
\* With nothing to loop over the call returns at once, to the while loop.
EnterReset(net, made, flow) ==
    /\ reset_calls' = Append(made, flow)
    /\ cloned_connections' = net.nodes[SINK + 1]
    /\ pc' = IF net.nodes[SINK + 1] = <<>> THEN "loop" ELSE "reset"

\* A variant of the checks that refuses as many workers as the minima ask for.
feasibility_check_min_inclusive(net) ==
    LET num_workers == Len(net.nodes) - net.num_tasks - 2
    IN  IF num_workers <= net.min_flow_amount
        THEN Some("Not enough workers to assign!")
        ELSE IF num_workers > net.max_flow_amount
        THEN Some("Not enough capacity for workers!")
        ELSE None

\* A variant of the checks that refuses as many workers as the maxima allow.
feasibility_check_max_inclusive(net) ==
    LET num_workers == Len(net.nodes) - net.num_tasks - 2
    IN  IF num_workers < net.min_flow_amount
        THEN Some("Not enough workers to assign!")
        ELSE IF num_workers >= net.max_flow_amount
        THEN Some("Not enough capacity for workers!")
        ELSE None

\* The initial checks for feasibility: the error find_min_cost_max_flow
\* returns before it does anything else, if any.
feasibility_check(net) ==
    LET num_workers == Len(net.nodes) - net.num_tasks - 2
    IN  IF num_workers < net.min_flow_amount
        THEN Some("Not enough workers to assign!")
        ELSE IF num_workers > net.max_flow_amount
        THEN Some("Not enough capacity for workers!")
        ELSE None

\* A variant of SolveBegin that resets a sink arc for the second phase before
\* it makes the count checks.
SolveBegin_resets_before_checks ==
    /\ pc = "workers"
    /\ pre' = network
    /\ current_flow' = 0
    /\ calls' = calls + 1
    /\ LET sink_arcs == network.nodes[SINK + 1]
           updated == update_for_second_phase(network.arcs[Head(sink_arcs) + 1])
           reset == IF sink_arcs # <<>> /\ updated.inverted
                    THEN [network EXCEPT
                             !.arcs[Head(sink_arcs) + 1] = updated.arc,
                             !.nodes[SINK + 1] = remove_connection(@, Head(sink_arcs)),
                             !.nodes[updated.arc.start_node + 1] =
                                 add_connection(@, Head(sink_arcs))]
                    ELSE network
       IN  /\ network' = reset
           /\ IF feasibility_check(network) # None
              THEN /\ pc' = "returned"
                   /\ result' = feasibility_check(network)[1]
                   /\ reset_calls' = <<>>
                   /\ UNCHANGED cloned_connections
              ELSE /\ result' = "none"
                   /\ IF network.min_flow_amount = 0
                      THEN EnterReset(reset, <<>>, 0)
                      ELSE /\ pc' = "loop"
                           /\ reset_calls' = <<>>
                           /\ UNCHANGED cloned_connections
    /\ UNCHANGED <<tasks, workers, task_decl, worker_decl, path, step, baseline>>
    /\ assigned_at_search' = <<>>
    /\ UNCHANGED gui

\* find_min_cost_max_flow up to its while loop: the two count checks and,
\* with no minimum to meet, the reset for the second phase.
CallSolve ==
    /\ pre' = network
    /\ current_flow' = 0
    /\ calls' = calls + 1
    /\ IF feasibility_check(network) # None
       THEN /\ pc' = "returned"
            /\ result' = feasibility_check(network)[1]
            /\ reset_calls' = <<>>
            /\ UNCHANGED cloned_connections
       ELSE /\ result' = "none"
            /\ IF network.min_flow_amount = 0
               THEN EnterReset(network, <<>>, 0)
               ELSE /\ pc' = "loop"
                    /\ reset_calls' = <<>>
                    /\ UNCHANGED cloned_connections
    /\ UNCHANGED <<network, tasks, workers, task_decl, worker_decl, path, step,
                   baseline>>
    /\ assigned_at_search' = <<>>
    /\ UNCHANGED gui

\* Solver::assign_workers calls find_min_cost_max_flow once the file is read.
SolveBegin ==
    /\ pc = "workers"
    /\ CallSolve

\* find_min_cost_max_flow is called once more on a Network on which it
\* returned Ok(()).
SolveAgain ==
    /\ pc = "returned"
    /\ result = "Ok"
    /\ calls < MaxCalls
    /\ CallSolve

\* One turn of reset_arcs_for_second_phase's loop.
ResetStep ==
    /\ pc = "reset"
    /\ LET connection == Head(cloned_connections)
           updated == update_for_second_phase(network.arcs[connection + 1])
           arc == updated.arc
           left == Tail(cloned_connections)
       IN  IF updated.inverted /\ ~contains(network.nodes[arc.end_node + 1], connection)
           THEN /\ pc' = "returned"
                /\ result' = "panic: Could not find connection to remove!"
                /\ network' = [network EXCEPT !.arcs[connection + 1] = arc]
                /\ UNCHANGED cloned_connections
           ELSE /\ network' =
                       IF updated.inverted
                       THEN [network EXCEPT
                                !.arcs[connection + 1] = arc,
                                !.nodes[arc.end_node + 1] = remove_connection(@, connection),
                                !.nodes[arc.start_node + 1] = add_connection(@, connection)]
                       ELSE network
                /\ cloned_connections' = left
                /\ pc' = IF left = <<>> THEN "loop" ELSE "reset"
                /\ result' = result
    /\ UNCHANGED <<tasks, workers, task_decl, worker_decl, current_flow, path, step,
                   pre, calls, reset_calls, baseline, assigned_at_search>>
    /\ UNCHANGED gui

\* The while condition holds: find_shortest_path()?
FindPath ==
    /\ pc = "loop"
    /\ Len(network.nodes[SOURCE + 1]) > 0
    /\ LET found == find_shortest_path(network)
       IN  IF found.kind = "ok"
           THEN /\ path' = found.path
                /\ step' = 1
                /\ pc' = "push"
                /\ result' = result
           ELSE /\ pc' = "returned"
                /\ result' = IF found.kind = "err"
                             THEN found.message
                             ELSE "panic: " \o found.message
                /\ UNCHANGED <<path, step>>
    /\ UNCHANGED <<network, tasks, workers, task_decl, worker_decl, current_flow,
                   cloned_connections, pre, calls, reset_calls, baseline>>
    /\ assigned_at_search' =
           [k \in 1..Len(tasks) |->
               Cardinality({i \in 1..Len(network.nodes[tasks[k] + 1]) :
                   network.arcs[network.nodes[tasks[k] + 1][i] + 1].end_node # SINK})]
    /\ UNCHANGED gui

\* One turn of push_flow_down_path's loop, for the pair (path[step], path[step + 1]).
PushStep ==
    /\ pc = "push"
    /\ LET from == path[step]
           to == path[step + 1]
           found == find_connecting_arc_id(network, from, to)
       IN  IF found = None
           THEN /\ pc' = "returned"
                /\ result' = "panic: called Option::unwrap() on a None value"
                /\ UNCHANGED <<network, step>>
           ELSE LET arc_id == found[1]
                    pushed == push_flow(network.arcs[arc_id + 1],
                                        network.min_flow_satisfied)
                IN  /\ network' =
                           IF pushed.inverted
                           THEN [network EXCEPT
                                    !.arcs[arc_id + 1] = pushed.arc,
                                    !.nodes[from + 1] = remove_connection(@, arc_id),
                                    !.nodes[to + 1] = add_connection(@, arc_id)]
                           ELSE [network EXCEPT !.arcs[arc_id + 1] = pushed.arc]
                    /\ step' = step + 1
                    /\ pc' = IF step + 1 = Len(path) THEN "pushed" ELSE "push"
                    /\ result' = result
    /\ UNCHANGED <<tasks, workers, task_decl, worker_decl, current_flow, path,
                   cloned_connections, pre, calls, reset_calls, baseline, assigned_at_search>>
    /\ UNCHANGED gui

\* A variant of EndIteration that resets the arcs after every iteration from
\* the one that reaches the minimum on.
EndIteration_resets_from_minimum_on ==
    /\ pc = "pushed"
    /\ current_flow' = current_flow + 1
    /\ IF current_flow + 1 >= network.min_flow_amount
       THEN EnterReset(network, reset_calls, current_flow + 1)
       ELSE pc' = "loop" /\ UNCHANGED <<cloned_connections, reset_calls>>
    /\ UNCHANGED <<network, tasks, workers, task_decl, worker_decl, result, path,
                   step, pre, calls, baseline, assigned_at_search>>
    /\ UNCHANGED gui

\* The end of the loop body: the flow is counted and, when the minimum is
\* reached, the arcs that touch the sink are reset.
EndIteration ==
    /\ pc = "pushed"
    /\ current_flow' = current_flow + 1
    /\ IF current_flow + 1 = network.min_flow_amount
       THEN EnterReset(network, reset_calls, current_flow + 1)
       ELSE pc' = "loop" /\ UNCHANGED <<cloned_connections, reset_calls>>
    /\ UNCHANGED <<network, tasks, workers, task_decl, worker_decl, result, path,
                   step, pre, calls, baseline, assigned_at_search>>
    /\ UNCHANGED gui

\* The while condition fails: Ok(()).
SolveReturn ==
    /\ pc = "loop"
    /\ Len(network.nodes[SOURCE + 1]) = 0
    /\ pc' = "returned"
    /\ result' = "Ok"
    /\ UNCHANGED <<network, tasks, workers, task_decl, worker_decl, solve_locals, pre,
                   calls, reset_calls, baseline, assigned_at_search>>
    /\ UNCHANGED gui

Next ==
    \/ ProcessTasks
    \/ ProcessWorker
    \/ SolveBegin
    \/ SolveAgain
    \/ ResetStep
    \/ FindPath
    \/ PushStep
    \/ EndIteration
    \/ SolveReturn

Spec == Init /\ [][Next]_vars

---------------------------------------------------------------------------
(* The same declarations, added to a new Network in another order: the     *)
(* add_task and add_worker calls of the reader, made in any order in which *)
(* a worker comes after the tasks it names (add_worker takes their ids).   *)

BuildItems ==
    {<<"task", k>> : k \in 1..Len(tasks)} \cup {<<"worker", j>> : j \in 1..Len(workers)}

\* the index, in column order, of the task that was given the id t
task_index(t) == CHOOSE k \in 1..Len(tasks) : tasks[k] = t

BuildOrders ==
    LET n == Len(tasks) + Len(workers)
        position(order, item) == CHOOSE p \in 1..n : order[p] = item
    IN  {order \in [1..n -> BuildItems] :
            /\ \A p, q \in 1..n : order[p] = order[q] => p = q
            /\ \A j \in 1..Len(workers) : \A i \in 1..Len(worker_decl[j]) :
                   position(order, <<"task", task_index(worker_decl[j][i][1])>>)
                       < position(order, <<"worker", j>>)}

\* The calls of order from the i-th on, made on built.net; built.tasks and
\* built.workers hold the ids the calls returned (0 for a call not made yet),
\* built.affinities the affinity lists the workers were added with.
RECURSIVE build(_, _, _)
build(built, order, i) ==
    IF i > Len(order)
    THEN built
    ELSE LET n == order[i][2]
             id == Len(built.net.nodes)
         IN  IF order[i][1] = "task"
             THEN build([built EXCEPT
                            !.net = add_task(built.net, task_decl[n][1], task_decl[n][2]),
                            !.tasks[n] = id],
                        order, i + 1)
             ELSE LET task_affinity ==
                          [a \in 1..Len(worker_decl[n]) |->
                              <<built.tasks[task_index(worker_decl[n][a][1])],
                                worker_decl[n][a][2]>>]
                  IN  build([built EXCEPT
                                 !.net = add_worker(built.net, task_affinity),
                                 !.workers[n] = id,
                                 !.affinities[n] = task_affinity],
                            order, i + 1)

\* What a run of find_min_cost_max_flow came to: its result and, when it is
\* Ok, the total score the writer reports.
Outcome ==
    <<result, IF result = "Ok" THEN -get_cost_of_arcs_from_nodes(network, tasks) ELSE 0>>

\* The solve has returned: its outcome is kept, and the declarations are
\* added to a new Network in some order.
Rebuild ==
    /\ pc = "returned"
    /\ baseline = None
    /\ result \in {"Ok", "Not enough workers to assign!",
                   "Not enough capacity for workers!", "Unable to assign all workers!"}
    /\ baseline' = Some(Outcome)
    /\ assigned_at_search' = <<>>
    /\ \E order \in BuildOrders :
           LET built == build([net |-> NetworkNew,
                               tasks |-> [k \in 1..Len(tasks) |-> 0],
                               workers |-> [j \in 1..Len(workers) |-> 0],
                               affinities |-> [j \in 1..Len(workers) |-> <<>>]],
                              order, 1)
           IN  /\ network' = built.net
               /\ tasks' = built.tasks
               /\ workers' = built.workers
               /\ worker_decl' = built.affinities
    /\ pc' = "built"
    /\ result' = "none"
    /\ calls' = 0
    /\ current_flow' = 0
    /\ path' = <<>>
    /\ step' = 0
    /\ cloned_connections' = <<>>
    /\ reset_calls' = <<>>
    /\ pre' = NetworkNew
    /\ UNCHANGED task_decl
    /\ UNCHANGED gui

\* find_min_cost_max_flow is called on the Network that was built anew.
SolveRebuilt ==
    /\ pc = "built"
    /\ CallSolve

NextOrder ==
    \/ ProcessTasks
    \/ ProcessWorker
    \/ SolveBegin
    \/ ResetStep
    \/ FindPath
    \/ PushStep
    \/ EndIteration
    \/ SolveReturn
    \/ Rebuild
    \/ SolveRebuilt

SpecOrder == Init /\ [][NextOrder]_vars

---------------------------------------------------------------------------
(* push_flow_down_path on its own, as the network's unit test calls it     *)
(* (src/src/network/test.rs, test_push_flow): a Network with an arc from   *)
(* node 0 to node 1 added by add_arc, and the path <<0, 1>> pushed down    *)
(* it, here once and again, for every bounds and cost of the arc and       *)
(* either value of the phase flag that push_flow is given.  A second arc   *)
(* out of node 0 is not on the path.                                       *)

PushNetworks ==
    {[add_arc(add_arc(add_node(NetworkNew), SOURCE, SINK, cost, min_flow, max_flow),
              SOURCE, 2, 1, 1, 1)
         EXCEPT !.min_flow_satisfied = flag] :
        <<cost, min_flow, max_flow, flag>> \in
            {q \in Affinities \X (0..MaxCap) \X (0..MaxCap) \X BOOLEAN : q[2] <= q[3]}}

InitPush ==
    /\ network \in PushNetworks
    /\ tasks = <<>>
    /\ workers = <<>>
    /\ task_decl = <<>>
    /\ worker_decl = <<>>
    /\ pc = "push"
    /\ result = "none"
    /\ current_flow = 0
    /\ path = <<SOURCE, SINK>>
    /\ step = 1
    /\ cloned_connections = <<>>
    /\ pre = NetworkNew
    /\ calls = 0
    /\ reset_calls = <<>>
    /\ baseline = None
    /\ assigned_at_search = <<>>
    /\ gui = GuiNew

\* push_flow_down_path is called with the same path once more.
PushAgain ==
    /\ pc = "pushed"
    /\ \A a \in 1..Len(network.arcs) : network.arcs[a].current_flow <= MaxCap
    /\ pc' = "push"
    /\ step' = 1
    /\ UNCHANGED <<network, tasks, workers, task_decl, worker_decl, result,
                   current_flow, path, cloned_connections, pre, calls, reset_calls,
                   baseline, assigned_at_search>>
    /\ UNCHANGED gui

NextPush ==
    \/ PushStep
    \/ PushAgain

SpecPush == InitPush /\ [][NextPush]_vars

---------------------------------------------------------------------------
(* The Network as its callers other than the reader use it, the unit tests *)
(* of src/src/network/test.rs among them: add_task and add_worker called on*)
(* a new Network in any order and with any arguments they take, an         *)
(* affinity list being any sequence of (task id, affinity) entries over    *)
(* the ids add_task has returned; then find_min_cost_max_flow.             *)

AffinityLists(task_ids) ==
    UNION {[1..n -> {task_ids[k] : k \in 1..Len(task_ids)} \X Affinities] :
              n \in 0..MaxEntries}

InitApi ==
    /\ network = NetworkNew
    /\ tasks = <<>>
    /\ workers = <<>>
    /\ task_decl = <<>>
    /\ worker_decl = <<>>
    /\ pc = "api"
    /\ result = "none"
    /\ current_flow = 0
    /\ path = <<>>
    /\ step = 0
    /\ cloned_connections = <<>>
    /\ pre = NetworkNew
    /\ calls = 0
    /\ reset_calls = <<>>
    /\ baseline = None
    /\ assigned_at_search = <<>>
    /\ gui = GuiNew

\* network.add_task(min_workers, max_workers)
AddTask ==
    /\ pc = "api"
    /\ Len(tasks) < MaxTasks
    /\ \E min_flow, max_flow \in 0..MaxCap :
           /\ network' = add_task(network, min_flow, max_flow)
           /\ task_decl' = Append(task_decl, <<min_flow, max_flow>>)
    /\ tasks' = Append(tasks, Len(network.nodes))
    /\ UNCHANGED <<workers, worker_decl, pc, result, solve_locals, pre, calls,
                   reset_calls, baseline, assigned_at_search>>
    /\ UNCHANGED gui

\* network.add_worker(&task_affinity)
AddWorker ==
    /\ pc = "api"
    /\ Len(workers) < MaxWorkers
    /\ \E task_affinity \in AffinityLists(tasks) :
           /\ network' = add_worker(network, task_affinity)
           /\ worker_decl' = Append(worker_decl, task_affinity)
    /\ workers' = Append(workers, Len(network.nodes))
    /\ UNCHANGED <<tasks, task_decl, pc, result, solve_locals, pre, calls,
                   reset_calls, baseline, assigned_at_search>>
    /\ UNCHANGED gui

\* network.find_min_cost_max_flow()
SolveApi ==
    /\ pc = "api"
    /\ CallSolve

NextApi ==
    \/ AddTask
    \/ AddWorker
    \/ SolveApi
    \/ ResetStep
    \/ FindPath
    \/ PushStep
    \/ EndIteration
    \/ SolveReturn

SpecApi == InitApi /\ [][NextApi]_vars

---------------------------------------------------------------------------
(* The GUI (src/src/ui/solver_gui.rs) and the solver threads it spawns     *)
(* (src/src/ui/solver.rs).  A frame is a call of SolverGui::update: it     *)
(* reads the shared status and, unless the status is InProgress, draws     *)
(* the buttons of update_not_started and handles the click of the frame.   *)
(* A thread runs Solver::assign_workers on the Network its own Solver::new *)
(* made; the model keeps of that run the steps at which it reads, writes   *)
(* and sets the shared status.                                             *)

FileNames == 1..MaxFiles

solver_vars == <<network, tasks, workers, task_decl, worker_decl, pc, result,
                 current_flow, path, step, cloned_connections, pre, calls,
                 reset_calls, baseline, assigned_at_search>>

\* SolverGui::update up to the branch it takes: get_status, then the screen
\* of that status.
update ==
    /\ gui.frame = "idle"
    /\ gui' = IF gui.cur_status[1] = "InProgress"
              THEN [gui EXCEPT !.screen = gui.cur_status]
              ELSE [gui EXCEPT !.screen = <<gui.cur_status[1]>>,
                               !.frame = "not_started"]
    /\ UNCHANGED solver_vars

\* update_not_started: the input file button is clicked and a file picked.
PickInfile ==
    /\ gui.frame = "not_started"
    /\ \E f \in FileNames :
           gui' = [gui EXCEPT !.infile = Some(f), !.frame = "idle"]
    /\ UNCHANGED solver_vars

\* update_not_started: the output file button is clicked and a file picked.
PickOutfile ==
    /\ gui.frame = "not_started"
    /\ \E f \in FileNames :
           gui' = [gui EXCEPT !.outfile = Some(f), !.frame = "idle"]
    /\ UNCHANGED solver_vars

\* update_not_started: no button is clicked in this frame.
EndFrame ==
    /\ gui.frame = "not_started"
    /\ gui' = [gui EXCEPT !.frame = "idle"]
    /\ UNCHANGED solver_vars

\* update_not_started: "Click here to solve" is clicked: start_solver_thread.
\* The spawned thread starts with Solver::new, which makes its Network.
start_solver_thread ==
    /\ gui.frame = "not_started"
    /\ IF gui.infile = None
       THEN gui' = [gui EXCEPT
                       !.cur_status = Failure("You must select an input file!"),
                       !.frame = "idle"]
       ELSE IF gui.outfile = None
       THEN gui' = [gui EXCEPT
                       !.cur_status = Failure("You must select an output file!"),
                       !.frame = "idle"]
       ELSE /\ Len(gui.threads) < MaxThreads
            /\ gui' = [gui EXCEPT
                          !.threads = Append(@, [at |-> "read",
                                                 infile |-> gui.infile[1],
                                                 outfile |-> gui.outfile[1],
                                                 network |-> Len(gui.threads) + 1,
                                                 num_workers |-> 0,
                                                 current_flow |-> 0]),
                          !.network_users = Append(@, {}),
                          !.frame = "idle"]
    /\ UNCHANGED solver_vars

\* assign_workers: read_file(infile, &self.network), and the Failure status
\* of a file the reader refuses.
ThreadRead(t) ==
    /\ gui.threads[t].at = "read"
    /\ \/ \E n \in 0..MaxWorkers :
              gui' = [gui EXCEPT
                         !.threads[t].at = "solve",
                         !.threads[t].num_workers = n,
                         !.network_users[gui.threads[t].network] = @ \cup {t}]
       \/ \E e \in {"Maximum cannot be less than minimum!",
                     "Too few task affinities for worker!"} :
              gui' = [gui EXCEPT
                         !.threads[t].at = "done",
                         !.cur_status = Failure(e),
                         !.network_users[gui.threads[t].network] = @ \cup {t}]
    /\ UNCHANGED solver_vars

\* find_min_cost_max_flow(status): one augmenting iteration, and the
\* progress it reports, the fraction current_flow / num_workers.
ThreadIterate(t) ==
    /\ gui.threads[t].at = "solve"
    /\ gui.threads[t].current_flow < gui.threads[t].num_workers
    /\ gui' = [gui EXCEPT
                  !.threads[t].current_flow = @ + 1,
                  !.cur_status = InProgress(<<gui.threads[t].current_flow + 1,
                                              gui.threads[t].num_workers>>),
                  !.network_users[gui.threads[t].network] = @ \cup {t}]
    /\ UNCHANGED solver_vars

\* assign_workers: find_min_cost_max_flow returned an error.
ThreadSolveErr(t) ==
    /\ gui.threads[t].at = "solve"
    /\ \/ /\ gui.threads[t].current_flow = 0
          /\ \E e \in {"Not enough workers to assign!",
                        "Not enough capacity for workers!"} :
                 gui' = [gui EXCEPT !.threads[t].at = "done",
                                    !.cur_status = Failure(e)]
       \/ /\ gui.threads[t].current_flow < gui.threads[t].num_workers
          /\ gui' = [gui EXCEPT
                        !.threads[t].at = "done",
                        !.cur_status = Failure("Unable to assign all workers!")]
    /\ UNCHANGED solver_vars

\* assign_workers: find_min_cost_max_flow returned Ok(()); write_file is next.
ThreadSolved(t) ==
    /\ gui.threads[t].at = "solve"
    /\ gui.threads[t].current_flow = gui.threads[t].num_workers
    /\ gui' = [gui EXCEPT !.threads[t].at = "write"]
    /\ UNCHANGED solver_vars

\* assign_workers: write_file(&self.network, outfile) returns, and the
\* status is set to the error or to Success.
ThreadWrite(t) ==
    /\ gui.threads[t].at = "write"
    /\ \E status \in {Success, Failure("write_file failed")} :
           gui' = [gui EXCEPT
                      !.threads[t].at = "done",
                      !.cur_status = status,
                      !.network_users[gui.threads[t].network] = @ \cup {t}]
    /\ UNCHANGED solver_vars

NextGui ==
    \/ update
    \/ PickInfile
    \/ PickOutfile
    \/ EndFrame
    \/ start_solver_thread
    \/ \E t \in 1..Len(gui.threads) : ThreadRead(t)
    \/ \E t \in 1..Len(gui.threads) : ThreadIterate(t)
    \/ \E t \in 1..Len(gui.threads) : ThreadSolveErr(t)
    \/ \E t \in 1..Len(gui.threads) : ThreadSolved(t)
    \/ \E t \in 1..Len(gui.threads) : ThreadWrite(t)

\* Init is the state when the window opens: nothing read, no thread spawned.
SpecGui == Init /\ [][NextGui]_vars

---------------------------------------------------------------------------
(* The vocabulary of the properties: what was declared, what an assignment *)
(* is, and what the solved network says was assigned.                      *)

TaskIndex == 1..Len(tasks)
WorkerIndex == 1..Len(workers)

min_workers(k) == task_decl[k][1]
max_workers(k) == task_decl[k][2]

\* worker j's affinity list names task id t
Lists(j, t) == \E n \in 1..Len(worker_decl[j]) : worker_decl[j][n][1] = t

\* The workers assigned to a task are the ends of the arcs in its connection
\* list that do not end at the sink: the positions of those arcs.
assigned_arcs(net, t) ==
    {i \in 1..Len(net.nodes[t + 1]) : net.arcs[net.nodes[t + 1][i] + 1].end_node # SINK}

workers_assigned(net, t) ==
    {net.arcs[net.nodes[t + 1][i] + 1].end_node : i \in assigned_arcs(net, t)}

num_assigned(net, t) == Cardinality(assigned_arcs(net, t))

RECURSIVE SumOver(_, _)
SumOver(f, S) ==
    IF S = {}
    THEN 0
    ELSE LET x == CHOOSE y \in S : TRUE
         IN  f[x] + SumOver(f, S \ {x})

SolveOk == pc = "returned" /\ result = "Ok"

---------------------------------------------------------------------------
(* C1: after solve returns success, every worker that was added is         *)
(* assigned to exactly one task, that task is named in the worker's        *)
(* affinity list, and the number of assigned workers equals the number of  *)
(* workers added.                                                          *)
C1_EveryWorkerAssignedOnce ==
    SolveOk =>
        /\ \A j \in WorkerIndex :
               LET held == {<<k, i>> \in TaskIndex \X (1..Len(network.arcs)) :
                               /\ i \in assigned_arcs(network, tasks[k])
                               /\ network.arcs[network.nodes[tasks[k] + 1][i] + 1].end_node
                                      = workers[j]}
               IN  /\ Cardinality(held) = 1
                   /\ \A h \in held : Lists(j, tasks[h[1]])
        /\ SumOver([k \in TaskIndex |-> num_assigned(network, tasks[k])], TaskIndex)
               = Len(workers)

\* Two workers, each with a choice of two tasks, have been assigned.
C1_Witness ==
    /\ SolveOk
    /\ Len(workers) = 2
    /\ \A j \in WorkerIndex : Len(worker_decl[j]) = 2
    /\ \E k \in TaskIndex : num_assigned(network, tasks[k]) = 2

(* C2: after solve returns success, every task has at least min_workers    *)
(* workers assigned to it.                                                 *)
C2_MinimumMet ==
    SolveOk => \A k \in TaskIndex : num_assigned(network, tasks[k]) >= min_workers(k)

\* Both phases ran: a task with a minimum got it, and then one worker more.
C2_Witness ==
    /\ SolveOk
    /\ \E k \in TaskIndex :
           /\ min_workers(k) > 0
           /\ num_assigned(network, tasks[k]) > min_workers(k)

(* C3: after solve returns success, no task has more than max_workers      *)
(* workers assigned to it.                                                 *)
C3_MaximumRespected ==
    SolveOk => \A k \in TaskIndex : num_assigned(network, tasks[k]) <= max_workers(k)

---------------------------------------------------------------------------
(* Assignments and their scores, from the declarations alone.              *)

\* the affinity worker j declared for task id t
declared_affinity(j, t) ==
    worker_decl[j][CHOOSE n \in 1..Len(worker_decl[j]) : worker_decl[j][n][1] = t][2]

\* Every worker gets one task of its affinity list, every task between its
\* minimum and its maximum: f maps worker indices to task indices.
ValidAssignments ==
    {f \in [WorkerIndex -> TaskIndex] :
        /\ \A j \in WorkerIndex : Lists(j, tasks[f[j]])
        /\ \A k \in TaskIndex :
               LET n == Cardinality({j \in WorkerIndex : f[j] = k})
               IN  min_workers(k) <= n /\ n <= max_workers(k)}

Score(f) == SumOver([j \in WorkerIndex |-> declared_affinity(j, tasks[f[j]])], WorkerIndex)

\* The (worker index, task index) pairs the network holds as assigned.
ProducedPairs ==
    {<<j, k>> \in WorkerIndex \X TaskIndex : workers[j] \in workers_assigned(network, tasks[k])}

ProducedScore ==
    SumOver([p \in ProducedPairs |-> declared_affinity(p[1], tasks[p[2]])], ProducedPairs)

(* C4, as stated: after solve returns success, no assignment that gives    *)
(* every worker one acceptable task and keeps every task within its bounds *)
(* has a strictly larger sum of affinities than the produced one.          *)
C4_MaximisesScore ==
    SolveOk => \A f \in ValidAssignments : Score(f) <= ProducedScore

(* C4, amended: after solve returns success, the sum of affinities of the  *)
(* produced assignment is a minimum: no assignment that gives every worker *)
(* one acceptable task and keeps every task within its bounds has a        *)
(* strictly smaller sum of affinities.                                     *)
C4_NoValidAssignmentScoresLess ==
    SolveOk => \A f \in ValidAssignments : ProducedScore <= Score(f)

\* Solved with two workers that rank two tasks differently, where some other
\* valid assignment scores strictly more than the produced one.
C4_Witness ==
    /\ SolveOk
    /\ Len(workers) = 2
    /\ \E f \in ValidAssignments : Score(f) > ProducedScore
    /\ \A j \in WorkerIndex : Len(worker_decl[j]) = 2

(* C5: after solve returns success, the sum of the affinities of the       *)
(* chosen worker-task pairs is the minimum over all assignments that give  *)
(* every worker one acceptable task and keep every task within its bounds. *)
C5_MinimumCostAssignment ==
    SolveOk =>
        /\ \E f \in ValidAssignments : Score(f) = ProducedScore
        /\ \A f \in ValidAssignments : ProducedScore <= Score(f)

---------------------------------------------------------------------------
(* The outcomes of the two operations.                                     *)

ReadErrors ==
    {"Maximum cannot be less than minimum!", "Too few task affinities for worker!"}

InsufficientWorkers == "Not enough workers to assign!"
InsufficientCapacity == "Not enough capacity for workers!"
Infeasible == "Unable to assign all workers!"

\* find_min_cost_max_flow has been called: it runs, or it has returned.
SolveCalled == pc \notin {"tasks", "workers"} /\ result \notin ReadErrors

sum_of_minima == SumOver([k \in TaskIndex |-> min_workers(k)], TaskIndex)
sum_of_maxima == SumOver([k \in TaskIndex |-> max_workers(k)], TaskIndex)

\* Nothing of the solve has happened but its count checks.
OnlyChecked ==
    /\ pc = "returned"
    /\ network = pre
    /\ path = <<>>
    /\ current_flow = 0
    /\ cloned_connections = <<>>

(* C6: solve fails with "Not enough workers to assign!" if and only if the *)
(* number of workers added is strictly less than the sum of the minima of  *)
(* the tasks added, and it does so before any search or phase transition.  *)
C6_InsufficientWorkersIff ==
    SolveCalled =>
        /\ (result = InsufficientWorkers) <=> (Len(workers) < sum_of_minima)
        /\ (result = InsufficientWorkers) => OnlyChecked

\* The error was returned to a file that has workers, one fewer than asked for.
C6_Witness ==
    /\ result = InsufficientWorkers
    /\ Len(workers) >= 1
    /\ Len(workers) + 1 = sum_of_minima

(* C7: solve fails with "Not enough capacity for workers!" if and only if  *)
(* the number of workers added is at least the sum of the task minima and  *)
(* strictly greater than the sum of the task maxima, and it does so before *)
(* any search or phase transition.                                         *)
C7_InsufficientCapacityIff ==
    SolveCalled =>
        /\ (result = InsufficientCapacity)
               <=> (Len(workers) >= sum_of_minima /\ Len(workers) > sum_of_maxima)
        /\ (result = InsufficientCapacity) => OnlyChecked

\* The error was returned to a file with tasks, with one worker too many.
C7_Witness ==
    /\ result = InsufficientCapacity
    /\ Len(tasks) >= 1
    /\ Len(workers) = sum_of_maxima + 1
    /\ sum_of_maxima >= 1

(* C8: when both count checks pass, solve fails with "Unable to assign all *)
(* workers!" if and only if there is no assignment giving every worker one *)
(* task of its affinity list with every task between its minimum and its   *)
(* maximum.                                                                *)
C8_InfeasibleIff ==
    (pc = "returned" /\ result \in {"Ok", Infeasible}) =>
        ((result = Infeasible) <=> (ValidAssignments = {}))

(* C9, as stated: whenever an operation returns a validation or            *)
(* feasibility error, the Network is exactly as it was before that call.   *)
C9_ErrorLeavesNetworkUnmodified ==
    (pc = "returned"
     /\ result \in ReadErrors \cup {InsufficientWorkers, InsufficientCapacity, Infeasible})
        => network = pre

(* C9, amended: whenever solve returns one of the two count errors, "Not   *)
(* enough workers to assign!" or "Not enough capacity for workers!", the   *)
(* Network is exactly as it was before that call.                          *)
C9_CountErrorLeavesNetworkUnmodified ==
    (pc = "returned" /\ result \in {InsufficientWorkers, InsufficientCapacity})
        => network = pre

\* A count error was returned for a network whose sink holds an arc that the
\* reset for the second phase would invert.
C9_Witness ==
    /\ pc = "returned"
    /\ result \in {InsufficientWorkers, InsufficientCapacity}
    /\ \E i \in 1..Len(network.nodes[SINK + 1]) :
           LET arc == network.arcs[network.nodes[SINK + 1][i] + 1]
           IN  arc.min_flow < arc.max_flow
    /\ Len(workers) >= 1

(* C10: a task added with min_workers = max_workers = 0 never receives a   *)
(* worker: in every reachable state no arc leaves that task for a worker   *)
(* (no worker-task arc of it is inverted) and its sink-task arc is in the  *)
(* sink's connection list, directed from the sink to the task.             *)
C10_ZeroTaskNeverReceives ==
    \A k \in TaskIndex :
        (min_workers(k) = 0 /\ max_workers(k) = 0) =>
            /\ \A a \in 1..Len(network.arcs) : network.arcs[a].start_node # tasks[k]
            /\ network.nodes[tasks[k] + 1] = <<>>
            /\ \E i \in 1..Len(network.nodes[SINK + 1]) :
                   LET arc == network.arcs[network.nodes[SINK + 1][i] + 1]
                   IN  arc.start_node = SINK /\ arc.end_node = tasks[k]

\* Solved, past the reset for the second phase, with a task of no capacity
\* that is the best choice of a worker with two choices.
C10_Witness ==
    /\ SolveOk
    /\ \E k \in TaskIndex :
           /\ min_workers(k) = 0 /\ max_workers(k) = 0
           /\ \E j \in WorkerIndex :
                  /\ Len(worker_decl[j]) = 2
                  /\ Lists(j, tasks[k])
                  /\ declared_affinity(j, tasks[k]) = -1

---------------------------------------------------------------------------
(* C11: a second call of solve on a network on which solve succeeded never *)
(* changes the network while reporting success: when it returns Ok, every  *)
(* arc, connection list, counter and flag is as it was before the call     *)
(* (and so it is at every step of that call).                              *)
C11_SecondSolveIsNoOp ==
    calls >= 2 =>
        /\ (pc = "returned" /\ result = "Ok") => network = pre
        /\ pc = "returned" => result \in {"Ok", InsufficientWorkers,
                                          InsufficientCapacity, Infeasible}

\* The second call returned Ok after it ran the reset for the second phase
\* over a sink that holds an arc, on a network with an assigned worker.
C11_Witness ==
    /\ calls = 2
    /\ SolveOk
    /\ reset_calls = <<0>>
    /\ network.nodes[SINK + 1] # <<>>
    /\ \E k \in TaskIndex : num_assigned(network, tasks[k]) >= 1

(* C12: for the same task and worker declarations, every order of         *)
(* add_task and add_worker calls in which each worker is added after the   *)
(* tasks it names yields the same solve outcome (success or the same       *)
(* error) and, on success, the same total score as the reader's order.     *)
C12_OrderIndependent ==
    (pc = "returned" /\ baseline # None) => Outcome = baseline[1]

\* Two tasks and two workers were added with a worker before a task, and the
\* solve of that Network returned Ok.
C12_Witness ==
    /\ pc = "returned"
    /\ baseline # None
    /\ result = "Ok"
    /\ Len(tasks) = 2 /\ Len(workers) = 2
    /\ \E j \in WorkerIndex : \E k \in TaskIndex : workers[j] < tasks[k]
    /\ \E j \in WorkerIndex : Len(worker_decl[j]) = 2

(* C13: after solve succeeds, the total score, the negation of            *)
(* get_cost_of_arcs_from_nodes over all task nodes, equals the sum of the  *)
(* declared affinities of exactly the assigned (worker, task) pairs; the   *)
(* arcs from a task to the sink contribute 0.                              *)
C13_TotalScoreIsSumOfAffinities ==
    SolveOk =>
        /\ -get_cost_of_arcs_from_nodes(network, tasks) = ProducedScore
        /\ \A k \in TaskIndex : \A i \in 1..Len(network.nodes[tasks[k] + 1]) :
               LET arc == network.arcs[network.nodes[tasks[k] + 1][i] + 1]
               IN  arc.end_node = SINK => arc.cost = 0

\* Solved, with a task that holds its arc to the sink and a worker whose
\* affinity for it is negative, and a second assigned pair.
C13_Witness ==
    /\ SolveOk
    /\ Cardinality(ProducedPairs) = 2
    /\ \E p \in ProducedPairs :
           /\ declared_affinity(p[1], tasks[p[2]]) = -1
           /\ \E i \in 1..Len(network.nodes[tasks[p[2]] + 1]) :
                  network.arcs[network.nodes[tasks[p[2]] + 1][i] + 1].end_node = SINK

---------------------------------------------------------------------------
(* The two ways to read a worker's task off the solved network.            *)

\* the node ids at the ends of the arcs of worker j's connection list that
\* are neither the source nor a worker
worker_side(j) ==
    {network.arcs[network.nodes[workers[j] + 1][i] + 1].end_node :
         i \in 1..Len(network.nodes[workers[j] + 1])}
        \ ({SOURCE} \cup {workers[n] : n \in WorkerIndex})

\* the tasks whose connection list holds an arc that ends at worker j
task_side(j) ==
    {tasks[k] : k \in {n \in TaskIndex : workers[j] \in workers_assigned(network, tasks[n])}}

\* the tasks worker j's affinity list names
listed_tasks(j) == {worker_decl[j][n][1] : n \in 1..Len(worker_decl[j])}

(* C14, as stated: after solve succeeds, for each worker the task it was   *)
(* assigned to is the one node id reachable through its connection list    *)
(* that is neither the source nor another worker, and this agrees with the *)
(* task-side extraction.                                                   *)
C14_WorkerSideAgrees ==
    SolveOk =>
        \A j \in WorkerIndex :
            /\ Cardinality(worker_side(j)) = 1
            /\ worker_side(j) = task_side(j)

(* C14, amended: after solve succeeds, for each worker the task it was     *)
(* assigned to is the one task whose connection list holds an arc ending   *)
(* at that worker; the worker's own connection list holds the arc to the   *)
(* source and, besides it, arcs to exactly the tasks of its affinity list  *)
(* that it was not assigned to.                                            *)
C14_WorkerListsUnassignedTasks ==
    SolveOk =>
        \A j \in WorkerIndex :
            /\ Cardinality(task_side(j)) = 1
            /\ worker_side(j) = listed_tasks(j) \ task_side(j)
            /\ find_connecting_arc_id(network, workers[j], SOURCE) # None

\* Solved, with a worker that named two tasks and another that named one.
C14_Witness ==
    /\ SolveOk
    /\ \E j \in WorkerIndex : Cardinality(listed_tasks(j)) = 2
    /\ \E j \in WorkerIndex : Cardinality(listed_tasks(j)) = 1

---------------------------------------------------------------------------
(* C15: in every state reachable through add_task, add_worker and solve,   *)
(* after each arc push and each step of the phase transition, every arc    *)
(* satisfies 0 <= current_flow <= max_flow.                                *)
C15_FlowWithinBounds ==
    \A a \in 1..Len(network.arcs) :
        /\ 0 <= network.arcs[a].current_flow
        /\ network.arcs[a].current_flow <= network.arcs[a].max_flow

(* C16: in every state between operations (after each add call, each path *)
(* push and each phase transition), every arc id appears in exactly one    *)
(* node's connection list, that node is the arc's current start node, and  *)
(* no connection list contains a duplicate id.                             *)
C16_ArcInExactlyOneList ==
    \A a \in 0..(Len(network.arcs) - 1) :
        LET holds == {<<n, i>> \in (1..Len(network.nodes)) \X (1..Len(network.arcs)) :
                         i <= Len(network.nodes[n]) /\ network.nodes[n][i] = a}
        IN  /\ Cardinality(holds) = 1
            /\ \A h \in holds : h[1] = network.arcs[a + 1].start_node + 1

\* Solved: arcs have moved between lists by pushes and by the reset for the
\* second phase, and a task holds two arcs that came from workers.
C16_Witness ==
    /\ SolveOk
    /\ reset_calls # <<>>
    /\ \E k \in TaskIndex :
           /\ num_assigned(network, tasks[k]) = 2
           /\ min_workers(k) < max_workers(k)

(* C17: every augmenting iteration of solve reduces the number of arcs in *)
(* the source's connection list by exactly one, so on success the loop has *)
(* run exactly num_workers times (num_workers shortest-path calls) and the *)
(* source's list is empty.                                                 *)
C17_IterationTakesOneSourceArc ==
    (calls = 1 /\ result \in {"none", "Ok"}) =>
        LET left == Len(network.nodes[SOURCE + 1])
        IN  /\ pc \in {"loop", "reset"} => left + current_flow = Len(workers)
            /\ pc = "pushed" => left + current_flow + 1 = Len(workers)
            /\ SolveOk => left = 0 /\ current_flow = Len(workers)

\* The second iteration has pushed its path and is about to be counted.
C17_Witness ==
    /\ calls = 1
    /\ pc = "pushed"
    /\ current_flow = 1
    /\ Len(workers) = 2
    /\ Len(network.nodes[SOURCE + 1]) = 0

(* C18: declaring a task with max_workers < min_workers fails validation  *)
(* with "Maximum cannot be less than minimum!" and no node or arc is added *)
(* for that task, so no task with max_workers < min_workers ever exists in *)
(* a Network: every task node, and every arc, has its minimum at most its  *)
(* maximum, and after the error the Network holds the tasks of the columns *)
(* before the rejected one and nothing else.                               *)
C18_NoTaskWithMaxBelowMin ==
    /\ \A k \in TaskIndex : min_workers(k) <= max_workers(k)
    /\ \A a \in 1..Len(network.arcs) : network.arcs[a].min_flow <= network.arcs[a].max_flow
    /\ network.num_tasks = Len(tasks)
    /\ Len(network.nodes) = 2 + Len(tasks) + Len(workers)
    /\ result = "Maximum cannot be less than minimum!" =>
           /\ pc = "returned"
           /\ Len(network.arcs) = Len(tasks)
           /\ network.min_flow_amount = sum_of_minima
           /\ network.max_flow_amount = sum_of_maxima

\* The second column was rejected: the first column's task is in the Network.
C18_Witness ==
    /\ result = "Maximum cannot be less than minimum!"
    /\ Len(tasks) = 1
    /\ Len(network.nodes) = 3

(* C19: during one successful solve the phase transition                 *)
(* (reset_arcs_for_second_phase) is invoked exactly once: before the first *)
(* shortest-path search when sum_of_minima = 0, otherwise right after the  *)
(* sum_of_minima-th augmenting iteration completes and before the next     *)
(* search; never earlier and never a second time.                          *)
C19_PhaseTransitionOnce ==
    (calls >= 1 /\ result \in {"none", "Ok"}
     /\ pc \in {"reset", "loop", "push", "pushed", "returned"}) =>
        /\ reset_calls = IF current_flow >= sum_of_minima
                         THEN <<sum_of_minima>>
                         ELSE <<>>
        /\ pc \in {"loop", "push", "pushed", "returned"} => cloned_connections = <<>>

\* Solved with a minimum to meet and a worker more than the minimum: the
\* reset came after the first iteration and not after the second.
C19_Witness ==
    /\ SolveOk
    /\ calls = 1
    /\ sum_of_minima = 1
    /\ current_flow = 2
    /\ reset_calls = <<1>>

(* C20: the phase flag min_flow_satisfied is false from construction until *)
(* the phase transition and true from the phase transition onwards, so a   *)
(* push_flow made after the transition inverts its arc exactly when the    *)
(* arc's current_flow reaches max_flow: no arc keeps a flow that has       *)
(* reached its max_flow once the transition has been made.                 *)
C20_PhaseFlagFollowsTransition ==
    calls <= 1 =>
        /\ network.min_flow_satisfied = (reset_calls # <<>>)
        /\ (reset_calls # <<>> /\ pc \in {"loop", "push", "pushed", "returned"}) =>
               \A a \in 1..Len(network.arcs) :
                   network.arcs[a].current_flow = network.arcs[a].max_flow
                       => network.arcs[a].min_flow = network.arcs[a].max_flow

---------------------------------------------------------------------------
\* reset_arcs_for_second_phase has just returned to the running solve.
AfterTransition ==
    /\ pc = "loop"
    /\ reset_calls # <<>>
    /\ current_flow = reset_calls[Len(reset_calls)]

\* the arc ids of the arcs between a task and the sink, in either direction
task_sink_arcs ==
    {a \in 0..(Len(network.arcs) - 1) :
        SINK \in {network.arcs[a + 1].start_node, network.arcs[a + 1].end_node}}

(* C21: immediately after the phase transition the sink's connection list  *)
(* holds exactly the task-sink arcs with min_flow = max_flow, unchanged;   *)
(* every other arc that was in the sink's list has been inverted to        *)
(* task -> sink, has current_flow = min_flow, and its id has moved from    *)
(* the sink's list to that task's list.  Each step of the transition       *)
(* leaves an arc with min_flow = max_flow, and the lists, as they were.    *)
(* (In the first solve of a Network every task-sink arc is in the sink's   *)
(* list when the transition begins.)                                       *)
C21_TransitionInvertsUnsaturated ==
    /\ [](AfterTransition =>
            \A i \in 1..Len(network.nodes[SINK + 1]) :
                LET arc == network.arcs[network.nodes[SINK + 1][i] + 1]
                IN  arc.min_flow = arc.max_flow /\ arc.start_node = SINK)
    /\ []((AfterTransition /\ calls = 1) =>
            \A a \in task_sink_arcs :
                LET arc == network.arcs[a + 1]
                IN  IF arc.min_flow = arc.max_flow
                    THEN /\ arc.start_node = SINK
                         /\ contains(network.nodes[SINK + 1], a)
                         /\ arc.current_flow = 0 /\ arc.cost = 0
                    ELSE /\ arc.end_node = SINK
                         /\ arc.current_flow = arc.min_flow
                         /\ contains(network.nodes[arc.start_node + 1], a)
                         /\ ~contains(network.nodes[SINK + 1], a))
    /\ [][pc = "reset" =>
            LET a == Head(cloned_connections)
                arc == network.arcs[a + 1]
            IN  IF arc.min_flow = arc.max_flow
                THEN network' = network
                ELSE /\ network'.arcs[a + 1].start_node = arc.end_node
                     /\ network'.arcs[a + 1].end_node = SINK
                     /\ network'.arcs[a + 1].current_flow = arc.min_flow
                     /\ \A b \in 1..Len(network.arcs) :
                            b # a + 1 => network'.arcs[b] = network.arcs[b]]_vars

\* The transition came after the first phase and found at the sink an arc
\* it left alone and an arc with a minimum that it inverted.
C21_Witness ==
    /\ AfterTransition
    /\ current_flow >= 1
    /\ \E a \in task_sink_arcs :
           network.arcs[a + 1].min_flow = network.arcs[a + 1].max_flow
    /\ \E a \in task_sink_arcs :
           /\ network.arcs[a + 1].min_flow < network.arcs[a + 1].max_flow
           /\ network.arcs[a + 1].min_flow > 0

\* the arc id of the arc between the task of id t and the sink
task_sink_arc(t) ==
    CHOOSE a \in task_sink_arcs :
        t \in {network.arcs[a + 1].start_node, network.arcs[a + 1].end_node}

(* C22: after solve succeeds, the arcs in the sink's connection list are   *)
(* exactly the task-sink arcs of the tasks whose number of assigned        *)
(* workers equals max_workers; every task with spare capacity has its arc  *)
(* in its own list, directed task -> sink.                                 *)
C22_SinkHoldsSaturatedTasks ==
    SolveOk =>
        \A k \in TaskIndex :
            LET a == task_sink_arc(tasks[k])
                arc == network.arcs[a + 1]
            IN  IF num_assigned(network, tasks[k]) = max_workers(k)
                THEN /\ contains(network.nodes[SINK + 1], a)
                     /\ arc.start_node = SINK
                ELSE /\ contains(network.nodes[tasks[k] + 1], a)
                     /\ arc.end_node = SINK

---------------------------------------------------------------------------
\* the ids a connection list holds
ids_of(connected_arcs) == {connected_arcs[i] : i \in 1..Len(connected_arcs)}

---------------------------------------------------------------------------
(* Paths of the residual network, by exhaustive search.                    *)

\* the least of a non-empty set of integers
Least(S) == CHOOSE x \in S : \A y \in S : x <= y

\* The cost of a cheapest path from node n to the sink that visits no node
\* of visited and no node twice, over the arcs of the connection lists of
\* the nodes it leaves (never the sink's); None when there is no such path.
RECURSIVE cheapest_to_sink(_, _, _)
cheapest_to_sink(net, n, visited) ==
    IF n = SINK
    THEN Some(0)
    ELSE LET costs ==
                 UNION {LET arc == net.arcs[net.nodes[n + 1][i] + 1]
                            rest == IF arc.end_node \in visited
                                    THEN None
                                    ELSE cheapest_to_sink(net, arc.end_node,
                                                          visited \cup {arc.end_node})
                        IN  IF rest = None THEN {} ELSE {arc.cost + rest[1]} :
                        i \in 1..Len(net.nodes[n + 1])}
         IN  IF costs = {} THEN None ELSE Some(Least(costs))

\* the cost of the arc that joins the i-th node of a path to the next
step_cost(net, p, i) ==
    net.arcs[find_connecting_arc_id(net, p[i], p[i + 1])[1] + 1].cost

(* C24: whenever find_shortest_path returns a path, the path starts at     *)
(* node 0, ends at node 1, visits no node twice, each consecutive pair     *)
(* (u, v) is joined by an arc in u's connection list ending at v, and its  *)
(* total cost is the minimum over all source-to-sink paths that use only   *)
(* arcs in connection lists of non-sink nodes; it returns the Infeasible   *)
(* error exactly when no such path exists.                                 *)
C24_ShortestPathIsCheapest ==
    /\ (pc = "push" /\ step = 1) =>
           /\ path[1] = SOURCE
           /\ path[Len(path)] = SINK
           /\ \A i, j \in 1..Len(path) : path[i] = path[j] => i = j
           /\ \A i \in 1..(Len(path) - 1) :
                  find_connecting_arc_id(network, path[i], path[i + 1]) # None
           /\ cheapest_to_sink(network, SOURCE, {SOURCE}) =
                  Some(SumOver([i \in 1..(Len(path) - 1) |-> step_cost(network, path, i)],
                               1..(Len(path) - 1)))
    /\ (pc = "returned" /\ result = Infeasible) =>
           cheapest_to_sink(network, SOURCE, {SOURCE}) = None
    /\ (pc = "returned" /\ result \notin ReadErrors
           /\ result \notin {"Ok", Infeasible, InsufficientWorkers, InsufficientCapacity})
           => FALSE

\* The search returned a path that moves a worker assigned earlier to
\* another task: it passes two workers, and a dearer path was there too.
C24_Witness ==
    /\ pc = "push"
    /\ step = 1
    /\ Len(path) = 6
    /\ \E i \in 1..Len(network.nodes[SOURCE + 1]) :
           LET arc == network.arcs[network.nodes[SOURCE + 1][i] + 1]
           IN  Len(network.nodes[arc.end_node + 1]) = 2

---------------------------------------------------------------------------
\* The node ids that are on the worklist (nodes_updated) at the start of
\* some round of the search loop, from the given search state on.
RECURSIVE worklist_nodes(_, _, _)
worklist_nodes(net, search, num_iterations) ==
    IF Len(search.nodes_updated) > 0 /\ num_iterations < Len(net.nodes)
    THEN LET searched == search_from_nodes(net,
                             [search EXCEPT !.nodes_updated = <<>>],
                             search.nodes_updated, 1)
         IN  {search.nodes_updated[i] : i \in 1..Len(search.nodes_updated)}
                 \cup worklist_nodes(net,
                           [searched EXCEPT
                               !.nodes_updated = sort_dedup(searched.nodes_updated)],
                           num_iterations + 1)
    ELSE {}

\* the search find_shortest_path makes from the state of the network
search_of(net) ==
    search_rounds(net,
        [distances |-> [i \in 1..Len(net.nodes) |-> IF i = SOURCE + 1 THEN Some(0) ELSE None],
         predecessors |-> [i \in 1..Len(net.nodes) |-> None],
         nodes_updated |-> <<SOURCE>>],
        0)

(* C25: in every state reachable during solve on a network built from      *)
(* valid declarations no internal-invariant abort occurs: the search's     *)
(* round counter stays below the node count when the worklist empties (no  *)
(* negative-cycle panic), the predecessor walk from the sink ends at the   *)
(* source, and every consecutive path pair has a connecting arc when flow  *)
(* is pushed.                                                              *)
C25_NoInternalAbort ==
    /\ result \in {"none", "Ok", Infeasible, InsufficientWorkers, InsufficientCapacity}
                      \cup ReadErrors
    /\ (pc = "loop" /\ Len(network.nodes[SOURCE + 1]) > 0) =>
           /\ search_of(network).num_iterations < Len(network.nodes)
           /\ search_of(network).search.nodes_updated = <<>>
           /\ find_shortest_path(network).kind # "panic"
    /\ pc = "push" =>
           find_connecting_arc_id(network, path[step], path[step + 1]) # None
    /\ pc = "reset" =>
           LET a == Head(cloned_connections)
           IN  contains(network.nodes[network.arcs[a + 1].start_node + 1], a)

\* A search that needed five rounds to empty its worklist, on a network of
\* six nodes, is about to be made.
C25_Witness ==
    /\ pc = "loop"
    /\ Len(network.nodes[SOURCE + 1]) > 0
    /\ Len(network.nodes) = 6
    /\ search_of(network).num_iterations = 5

---------------------------------------------------------------------------
(* C26: the sink is never added to the search worklist, so no arc          *)
(* originating at the sink is ever on a returned path or receives a push;  *)
(* consequently the number of workers assigned to any task never decreases *)
(* from one augmenting iteration to the next.                              *)
C26_SinkArcsNeverPushed ==
    /\ (pc = "loop" /\ Len(network.nodes[SOURCE + 1]) > 0) =>
           SINK \notin worklist_nodes(network,
                           [distances |-> [i \in 1..Len(network.nodes) |->
                                              IF i = SOURCE + 1 THEN Some(0) ELSE None],
                            predecessors |-> [i \in 1..Len(network.nodes) |-> None],
                            nodes_updated |-> <<SOURCE>>],
                           0)
    /\ pc = "push" =>
           /\ \A i \in 1..(Len(path) - 1) : path[i] # SINK
           /\ \A i \in 1..(Len(path) - 1) :
                  LET found == find_connecting_arc_id(network, path[i], path[i + 1])
                  IN  (i >= step /\ found # None) =>
                          network.arcs[found[1] + 1].start_node # SINK
    /\ (pc \in {"pushed", "loop", "reset", "returned"} /\ assigned_at_search # <<>>) =>
           \A k \in TaskIndex :
               num_assigned(network, tasks[k]) >= assigned_at_search[k]

\* An iteration has moved a worker from one task to another, past arcs
\* that the sink holds: the task it left has the workers it had.
C26_Witness ==
    /\ pc = "pushed"
    /\ Len(path) = 6
    /\ network.nodes[SINK + 1] # <<>>
    /\ \E k \in TaskIndex :
           /\ assigned_at_search[k] = 1
           /\ num_assigned(network, tasks[k]) = 1
           /\ tasks[k] = path[3]

(* C28: after the k-th augmenting iteration of solve, for every k from 0   *)
(* to num_workers, exactly k workers are assigned (exactly one of their    *)
(* worker-task arcs is inverted to task->worker), every other worker has   *)
(* no inverted worker-task arc, and the source's connection list holds     *)
(* exactly the source->worker arcs of the unassigned workers.              *)
C28_KWorkersAfterKIterations ==
    LET inverted_arcs(w) ==
            {a \in 1..Len(network.arcs) :
                /\ network.arcs[a].end_node = w
                /\ \E k \in TaskIndex :
                       /\ network.arcs[a].start_node = tasks[k]
                       /\ contains(network.nodes[tasks[k] + 1], a - 1)}
        assigned == {j \in WorkerIndex : inverted_arcs(workers[j]) # {}}
        source_list == network.nodes[SOURCE + 1]
    IN  (calls = 1 /\ pc \in {"loop", "reset", "returned"}
             /\ result \in {"none", "Ok", "Unable to assign all workers!"}) =>
            /\ current_flow \in 0..Len(workers)
            /\ Cardinality(assigned) = current_flow
            /\ \A j \in WorkerIndex : Cardinality(inverted_arcs(workers[j])) <= 1
            /\ \A i, n \in 1..Len(source_list) : source_list[i] = source_list[n] => i = n
            /\ {network.arcs[source_list[i] + 1].end_node : i \in 1..Len(source_list)}
                   = {workers[j] : j \in WorkerIndex \ assigned}
            /\ \A i \in 1..Len(source_list) :
                   LET arc == network.arcs[source_list[i] + 1]
                   IN  /\ arc.start_node = SOURCE
                       /\ arc.cost = 0
                       /\ arc.min_flow = 1 /\ arc.max_flow = 1

\* The first of two iterations is over: one worker is assigned and the
\* source holds the arc of the other.
C28_Witness ==
    /\ calls = 1
    /\ pc = "loop"
    /\ current_flow = 1
    /\ Len(workers) = 2
    /\ Len(network.nodes[SOURCE + 1]) = 1
    /\ \E k \in TaskIndex : num_assigned(network, tasks[k]) = 1

(* C27: after any sequence of add_task and add_worker calls on a new       *)
(* Network (before solve): node 0 is the source and node 1 the sink; there *)
(* are 2 + #tasks + #workers nodes and #tasks + #workers + (total affinity *)
(* entries) arcs; the source's list holds one (1,1) cost-0 arc per worker; *)
(* each task with min_workers > 0 holds a task->sink arc with bounds       *)
(* (min,max); each task with min_workers = 0 has its arc in the sink's     *)
(* list as sink->task; each worker holds one (1,1) arc per affinity entry  *)
(* with cost equal to the affinity.                                        *)
C27_NetworkAsBuilt ==
    pc = "api" =>
        LET list(n) == network.nodes[n + 1]
            arc(n, i) == network.arcs[list(n)[i] + 1]
            entries == [j \in WorkerIndex |-> Len(worker_decl[j])]
        IN  /\ Len(network.nodes) = 2 + Len(tasks) + Len(workers)
            /\ Len(network.arcs) = Len(tasks) + Len(workers) + SumOver(entries, WorkerIndex)
            /\ \A a \in 1..Len(network.arcs) :
                   /\ contains(list(network.arcs[a].start_node), a - 1)
                   /\ network.arcs[a].end_node # SOURCE
            /\ Len(list(SOURCE)) = Len(workers)
            /\ \A j \in WorkerIndex :
                   /\ arc(SOURCE, j) = ArcNew(SOURCE, workers[j], 0, 1, 1)
                   /\ Len(list(workers[j])) = Len(worker_decl[j])
                   /\ \A i \in 1..Len(worker_decl[j]) :
                          arc(workers[j], i) =
                              ArcNew(workers[j], worker_decl[j][i][1],
                                     worker_decl[j][i][2], 1, 1)
            /\ \A k \in TaskIndex :
                   IF min_workers(k) > 0
                   THEN /\ Len(list(tasks[k])) = 1
                        /\ arc(tasks[k], 1) =
                               ArcNew(tasks[k], SINK, 0, min_workers(k), max_workers(k))
                   ELSE /\ list(tasks[k]) = <<>>
                        /\ \E i \in 1..Len(list(SINK)) :
                               arc(SINK, i) = ArcNew(SINK, tasks[k], 0, 0, max_workers(k))
            /\ Len(list(SINK)) = Cardinality({k \in TaskIndex : min_workers(k) = 0})

\* A task with a minimum, then a worker, then a task without one, then a
\* worker that names both tasks.
C27_Witness ==
    /\ pc = "api"
    /\ Len(tasks) = 2 /\ Len(workers) = 2
    /\ workers[1] < tasks[2]
    /\ min_workers(1) > 0 /\ min_workers(2) = 0
    /\ Len(worker_decl[2]) = 2
    /\ worker_decl[2][1][1] # worker_decl[2][2][1]
    /\ Len(network.nodes[SINK + 1]) = 1

(* C29: in every reachable state, for any two nodes u and v at most one    *)
(* arc in u's connection list ends at v, for every affinity list accepted  *)
(* by add_worker (including one that names the same task more than once);  *)
(* hence the arc that find_connecting_arc_id selects for a path step       *)
(* (u, v) is the arc whose cost the shortest-path search used for that     *)
(* step.                                                                   *)
C29_AtMostOneArcBetweenNodes ==
    /\ \A u \in 1..Len(network.nodes) : \A i, n \in 1..Len(network.nodes[u]) :
           network.arcs[network.nodes[u][i] + 1].end_node
               = network.arcs[network.nodes[u][n] + 1].end_node => i = n
    /\ (pc = "push" /\ step = 1) =>
           \A i \in 1..(Len(path) - 1) :
               search_of(network).search.distances[path[i + 1] + 1]
                   = Some(search_of(network).search.distances[path[i] + 1][1]
                              + step_cost(network, path, i))

(* C30: at most one solver thread is running at any time: once the GUI    *)
(* has started a solver thread (start_solver_thread), a second one cannot  *)
(* be started until the first has set the shared status to Success or      *)
(* Failure, so no two threads write the shared status or the same output   *)
(* file concurrently; each thread uses only the Network it created itself. *)
C30_AtMostOneSolverThread ==
    LET running == {t \in 1..Len(gui.threads) : gui.threads[t].at # "done"}
    IN  /\ Cardinality(running) <= 1
        /\ \A t, u \in running :
               (gui.threads[t].at = "write" /\ gui.threads[u].at = "write"
                    /\ gui.threads[t].outfile = gui.threads[u].outfile) => t = u
        /\ \A n \in 1..Len(gui.network_users) : gui.network_users[n] \subseteq {n}

===========================================================================
